---- MODULE Spec2Model ----
(***************************************************************************)
(* Model of rs-edlib: Alignment::run and the two banded bit-vector sweeps  *)
(* (calc_edit_dst_semi_global, calc_edit_dst_nw), together with the        *)
(* alphabet transform, the equality table, the query profile (PEQ) and the *)
(* block update.                                                           *)
(*                                                                         *)
(* Representation.  A Word (u64) is the set of its set bit positions, a    *)
(* subset of 0..WORD_SIZE-1.  Option<T> is a sequence of length 0 (None)   *)
(* or 1 (Some).  Characters are their byte codes.  Vectors are sequences;  *)
(* the code's index i is the model's index i+1.                            *)
(*                                                                         *)
(* usize arithmetic: a build with overflow checks ("debug") panics on      *)
(* overflow, a build without ("release") wraps modulo 2^64.  The build is  *)
(* part of the initial state.  TLC's integers are 32 bits wide, so the     *)
(* wrap modulus is represented by USIZE_MOD; every quantity of the model   *)
(* is far below USIZE_MOD \div 2, so sums, differences and comparisons of  *)
(* wrapped values order exactly as they do modulo 2^64.                    *)
(***************************************************************************)
EXTENDS Integers, Sequences, FiniteSets, TLC

\* ---------------------------------------------------------------- bounds
MaxLen == 2
MaxK == 1
MaxRetries == 2

\* ------------------------------------------------------------- constants
WORD_SIZE == 64
MAX_UCHAR == 256
STRONG_REDUCE_NUM == 2048

USIZE_MOD == 2^30
ISIZE_LIMIT == USIZE_MOD \div 2

None == <<>>
Some(x) == <<x>>
IsSome(o) == Len(o) = 1
IsNone(o) == Len(o) = 0
Unwrap(o) == o[1]

Min(a, b) == IF a <= b THEN a ELSE b
Max(a, b) == IF a >= b THEN a ELSE b
AbsDiff(a, b) == IF a >= b THEN a - b ELSE b - a
CeilDiv(x, y) == (x + y - 1) \div y

\* usize value of a mathematical result in a release build (wrapping).
Wrap(v) == v % USIZE_MOD
\* isize::try_from(usize) / usize::try_from(isize) succeed?
FitsIsize(u) == u < ISIZE_LIMIT
FitsUsize(i) == i >= 0

\* ----------------------------------------------------------------- words
BitIdx == 0 .. (WORD_SIZE - 1)
WORD_MAX == BitIdx
WORD_0 == {}
WORD_1 == {0}
HIGH_BIT_MASK == {WORD_SIZE - 1}

WAnd(a, b) == a \cap b
WOr(a, b) == a \cup b
WXor(a, b) == (a \ b) \cup (b \ a)
WNot(a) == BitIdx \ a
WShl1(a) == {i + 1 : i \in a} \cap BitIdx
\* (x & HIGH_BIT_MASK) >> (WORD_SIZE - 1), as an integer 0 or 1
HighBit(a) == IF (WORD_SIZE - 1) \in a THEN 1 ELSE 0

\* A loop `for i in lo..=hi` with body F on an accumulator; the bodies run in
\* increasing order of i.  The range is halved and the first half's result is
\* evaluated (by wrapping it in a tuple) before the second half starts, which
\* keeps the evaluation depth logarithmic in the length of the range.
RECURSIVE FoldRange(_, _, _, _)
FoldRange(F(_, _), acc, lo, hi) ==
    IF lo > hi THEN acc
    ELSE IF lo = hi THEN F(acc, lo)
    ELSE LET left == FoldRange(F, acc, lo, (lo + hi) \div 2)
         IN  IF Len(<<left>>) = 1 THEN FoldRange(F, left, ((lo + hi) \div 2) + 1, hi)
             ELSE left

\* a + b on Words by ripple carry; carry is the carry out of the top bit.
AddBit(a, b, acc, i) ==
    LET ai == i \in a
        bi == i \in b
    IN  [sum |-> IF (ai # bi) # acc.carry THEN acc.sum \cup {i} ELSE acc.sum,
         carry |-> (ai /\ bi) \/ (ai /\ acc.carry) \/ (bi /\ acc.carry)]

WAdd(a, b) ==
    FoldRange(LAMBDA acc, i : AddBit(a, b, acc, i), [sum |-> {}, carry |-> FALSE],
              0, WORD_SIZE - 1)

\* ----------------------------------------------------------------- block
\* Block { p, m, score }
Block(p, m, score) == [p |-> p, m |-> m, score |-> score]

\* Block::calculate_hout_delta: the block after the update, the returned hout,
\* whether (eq & p) + p overflowed the Word (a panic in a checked build), and
\* the locals ph and mh as they are after the shift.
\* The function's locals are passed on from one part to the next.
HinIsNeg(hin) == IF hin < 0 THEN WORD_1 ELSE WORD_0

\* HoutDeltaV with self.m = ph | xv
HoutDeltaV_MOr(blk, xv, ph, mh, hout, overflow) ==
    [blk |-> [blk EXCEPT !.p = WOr(mh, WNot(WOr(xv, ph))),
                         !.m = WOr(ph, xv)],
     hout |-> hout,
     overflow |-> overflow,
     ph |-> ph,
     mh |-> mh]

\* self.p = mh | !(xv | ph); self.m = ph & xv; hout
HoutDeltaV(blk, xv, ph, mh, hout, overflow) ==
    [blk |-> [blk EXCEPT !.p = WOr(mh, WNot(WOr(xv, ph))),
                         !.m = WAnd(ph, xv)],
     hout |-> hout,
     overflow |-> overflow,
     ph |-> ph,
     mh |-> mh]

\* HoutDeltaShift with bit 0 of ph set whenever hin >= 0
HoutDeltaShift_PhOnNonNegative(blk, eq0, hin, ph0, mh0, overflow) ==
    HoutDeltaV(blk, WOr(eq0, blk.m),
               WOr(WShl1(ph0), IF hin >= 0 THEN WORD_1 ELSE WORD_0),
               WOr(WShl1(mh0), HinIsNeg(hin)),
               HighBit(ph0) - HighBit(mh0), overflow)

\* hout from the high bits; ph <<= 1; mh <<= 1; mh |= hin_is_neg; ph |= (hin + 1) >> 1
HoutDeltaShift(blk, eq0, hin, ph0, mh0, overflow) ==
    HoutDeltaV(blk, WOr(eq0, blk.m),
               WOr(WShl1(ph0), IF (hin + 1) \div 2 = 1 THEN WORD_1 ELSE WORD_0),
               WOr(WShl1(mh0), HinIsNeg(hin)),
               HighBit(ph0) - HighBit(mh0), overflow)

\* ph = self.m | !(xh | self.p); mh = self.p & xh
HoutDeltaH(blk, eq0, hin, xh, overflow) ==
    HoutDeltaShift(blk, eq0, hin, WOr(blk.m, WNot(WOr(xh, blk.p))), WAnd(blk.p, xh), overflow)

\* xh = (((eq & self.p) + self.p) ^ self.p) | eq
HoutDeltaXh(blk, eq0, hin, add) ==
    HoutDeltaH(blk, eq0, hin, WOr(WXor(add.sum, blk.p), WOr(eq0, HinIsNeg(hin))), add.carry)

calculate_hout_delta(blk, eq0, hin) ==
    HoutDeltaXh(blk, eq0, hin, WAdd(WAnd(WOr(eq0, HinIsNeg(hin)), blk.p), blk.p))

\* Block::get_cell_values: WORD_SIZE values; every step of the loop tests the
\* HIGH_BIT_MASK bit of p and m (the shifted mask is not used).
CellStep(blk, acc) ==
    LET s1 == IF WAnd(blk.p, HIGH_BIT_MASK) # {} THEN acc.score - 1 ELSE acc.score
        s2 == IF WAnd(blk.m, HIGH_BIT_MASK) # {} THEN s1 + 1 ELSE s1
    IN  [score |-> s2, scores |-> Append(acc.scores, acc.score)]

\* scores[WORD_SIZE - 1] = score on a vector with capacity WORD_SIZE
CellLast(r) ==
    IF Len(r.scores) >= WORD_SIZE
    THEN [r.scores EXCEPT ![WORD_SIZE] = r.score]
    ELSE Append(r.scores, r.score)

get_cell_values(blk) ==
    CellLast(FoldRange(LAMBDA acc, i : CellStep(blk, acc),
                       [score |-> blk.score, scores |-> <<>>], 0, WORD_SIZE - 2))

\* ------------------------------------------------------ alphabet transform
\* The alphabet is a String: the model keeps the sequence of its chars.
\* String::len() and str::find count bytes of the UTF-8 encoding, while
\* chars().nth() counts chars.
Utf8Len(ch) == IF ch < 128 THEN 1 ELSE IF ch < 2048 THEN 2 ELSE IF ch < 65536 THEN 3 ELSE 4

RECURSIVE StrLenFrom(_, _)
StrLenFrom(str, i) == IF i > Len(str) THEN 0 ELSE Utf8Len(str[i]) + StrLenFrom(str, i + 1)

\* String::len(): the length in bytes
StrLen(str) == StrLenFrom(str, 1)

\* modify_seq: letter_idx is kept for the characters seen so far (in_alphabet
\* is its domain); a character code outside 0..MAX_UCHAR-1 is never added and
\* the indexing letter_idx[elem_idx] then panics.
modify_elem(seq, acc, i) ==
    LET elem == seq[i]
        fresh == elem < MAX_UCHAR /\ elem \notin DOMAIN acc.letter_idx
        alphabet1 == IF fresh THEN Append(acc.alphabet, elem) ELSE acc.alphabet
        letter1 == IF fresh
                   THEN [e \in DOMAIN acc.letter_idx \cup {elem} |->
                            IF e = elem THEN StrLen(acc.alphabet) ELSE acc.letter_idx[e]]
                   ELSE acc.letter_idx
    IN  IF acc.status # "ok" THEN acc
        ELSE IF elem >= MAX_UCHAR THEN [acc EXCEPT !.status = "panic"]
        ELSE [acc EXCEPT !.alphabet = alphabet1, !.letter_idx = letter1,
                         !.out = Append(acc.out, letter1[elem])]

modify_seq(seq, acc) == FoldRange(LAMBDA a, i : modify_elem(seq, a, i), acc, 1, Len(seq))

transform_sequences(query, target) ==
    LET q == modify_seq(query, [alphabet |-> <<>>, letter_idx |-> <<>>,
                                out |-> <<>>, status |-> "ok"])
        t == modify_seq(target, [q EXCEPT !.out = <<>>])
    IN  [alphabet |-> t.alphabet, query |-> q.out, target |-> t.out, status |-> t.status]

\* ------------------------------------------------------- equality table
\* str::find: byte offset of the first occurrence, or None; at is the byte
\* offset of the i-th char.
RECURSIVE FindFrom(_, _, _, _)
FindFrom(alphabet, ch, i, at) ==
    IF i > Len(alphabet) THEN None
    ELSE IF alphabet[i] = ch THEN Some(at)
    ELSE FindFrom(alphabet, ch, i + 1, at + Utf8Len(alphabet[i]))

Find(alphabet, ch) == FindFrom(alphabet, ch, 1, 0)

\* EqualityDefinition_new with every added pair written in both directions
EqualityDefinition_new_Mirrored(alphabet, added_equalities) ==
    LET A == StrLen(alphabet)
        ident == {(xy[2] * A) + xy[1] : xy \in {e \in (0 .. (A - 1)) \X (0 .. (A - 1)) : e[1] = e[2]}}
        present == {e \in added_equalities :
                       IsSome(Find(alphabet, e[1])) /\ IsSome(Find(alphabet, e[2]))}
        added == {Unwrap(Find(alphabet, pr[1])) + (A * Unwrap(Find(alphabet, pr[2]))) :
                     pr \in present}
        mirrored == {Unwrap(Find(alphabet, pr[2])) + (A * Unwrap(Find(alphabet, pr[1]))) :
                        pr \in present}
    IN  [alphabet |-> alphabet, matrix_len |-> MAX_UCHAR * MAX_UCHAR,
         matrix |-> (ident \cup added) \cup mirrored]

\* EqualityDefinition { alphabet, matrix }: the matrix is a Vec<bool> of
\* matrix_len entries, kept as the set of the indices holding true.
EqualityDefinition_new(alphabet, added_equalities) ==
    LET A == StrLen(alphabet)
        ident == {(xy[2] * A) + xy[1] : xy \in {e \in (0 .. (A - 1)) \X (0 .. (A - 1)) : e[1] = e[2]}}
        added == {Unwrap(Find(alphabet, pr[1])) + (A * Unwrap(Find(alphabet, pr[2]))) :
                     pr \in {e \in added_equalities :
                                IsSome(Find(alphabet, e[1])) /\ IsSome(Find(alphabet, e[2]))}}
    IN  [alphabet |-> alphabet, matrix_len |-> MAX_UCHAR * MAX_UCHAR,
         matrix |-> ident \cup added]

\* impl Index<(usize, usize)>: matrix[index.0 + alphabet.len() * index.1]
EqIndex(eq_def, i0, i1) ==
    LET at == i0 + (StrLen(eq_def.alphabet) * i1)
    IN  IF at >= eq_def.matrix_len THEN [status |-> "panic", v |-> FALSE]
        ELSE [status |-> "ok", v |-> at \in eq_def.matrix]

are_equal(eq_def, a, b) ==
    LET pos_x == Find(eq_def.alphabet, a)
        pos_y == Find(eq_def.alphabet, b)
    IN  IF IsNone(pos_x) \/ IsNone(pos_y) THEN [status |-> "err", v |-> FALSE]
        ELSE EqIndex(eq_def, Unwrap(pos_x), Unwrap(pos_y))

\* alphabet.chars().nth(index)
symbol(eq_def, index) ==
    IF index < Len(eq_def.alphabet) THEN Some(eq_def.alphabet[index + 1]) ELSE None

\* -------------------------------------------------------- query profile
\* One step of the loop over the block's query positions r, which runs from
\* the block's last position down to its first (n counts the steps): the word
\* is shifted left and its low bit (clear after the shift) is set by the += 1.
PeqStep(query, eq_def, symbol_char, hi, acc, n) ==
    LET r == hi - n
        shifted == WShl1(acc.word)
        r_char_idx == IF r < Len(query) THEN query[r + 1] ELSE 0
        r_char == symbol(eq_def, r_char_idx)
        eqr == are_equal(eq_def, Unwrap(r_char), symbol_char)
    IN  IF acc.status # "ok" THEN acc
        ELSE IF IsNone(r_char) THEN [acc EXCEPT !.status = "panic"]
        ELSE IF r >= Len(query) THEN [acc EXCEPT !.word = WOr(shifted, WORD_1)]
        ELSE IF eqr.status # "ok" THEN [acc EXCEPT !.status = eqr.status]
        ELSE [acc EXCEPT !.word = IF eqr.v THEN WOr(shifted, WORD_1) ELSE shifted]

PeqWord(query, eq_def, symbol_char, block) ==
    FoldRange(LAMBDA acc, n : PeqStep(query, eq_def, symbol_char,
                                      ((block + 1) * WORD_SIZE) - 1, acc, n),
              [word |-> WORD_0, status |-> "ok"], 0, WORD_SIZE - 1)

\* The word of (symbol, block): all ones for the wildcard symbol, which is the
\* one past the alphabet.
PeqEntry(query, eq_def, sym, block) ==
    IF IsSome(symbol(eq_def, sym))
    THEN PeqWord(query, eq_def, Unwrap(symbol(eq_def, sym)), block)
    ELSE [word |-> WORD_MAX, status |-> "ok"]

\* peq[symbol * max_num_blocks + block] = word, unless an earlier word failed
PeqPush(acc, entry) ==
    IF acc.status # "ok" THEN acc
    ELSE [table |-> Append(acc.table, entry.word), status |-> entry.status]

\* build_peq_table: (alphabet_length + 1) * max_num_blocks Words, the word of
\* (symbol, block) at index symbol * max_num_blocks + block.
PeqTable(alphabet_length, query, eq_def, max_num_blocks) ==
    FoldRange(LAMBDA acc, idx :
                  PeqPush(acc, PeqEntry(query, eq_def, idx \div max_num_blocks,
                                        idx % max_num_blocks)),
              [table |-> <<>>, status |-> "ok"],
              0, ((alphabet_length + 1) * max_num_blocks) - 1)

build_peq_table(alphabet_length, query, eq_def) ==
    PeqTable(alphabet_length, query, eq_def, CeilDiv(Len(query), WORD_SIZE))

\* ------------------------------------------------- sweeps: shared parts
\* A sweep's locals are a record st; st.status is "run" while the function is
\* executing, "ret" once it has returned Ok(()), "err" once a `?` or bail!
\* has returned an error, "panic" once it has panicked.
Stop(st, how) == [st EXCEPT !.status = how]

\* vec of blocks made by (0..=last_block_idx).map(...).collect()
InitBlocks(last_block_idx) ==
    [b \in 1 .. (last_block_idx + 1) |-> Block(WORD_MAX, WORD_0, b * WORD_SIZE)]

\* let col_idx = idx + *c * max_num_blocks; of both sweeps: the index in the
\* PEQ table from which the column's words are counted
ColIdx(idx, c, max_num_blocks) == idx + (c * max_num_blocks)

\* for block_idx in first_block_idx..=last_block_idx { ... } of both sweeps;
\* the carried hout is left in st.hout.  BlockLoopStep is the rest of one
\* iteration once calculate_hout_delta has returned r.
RECURSIVE BlockLoop(_, _, _, _, _, _)
BlockLoopStep(st, peq, col_idx, block_idx, r, build) ==
    IF r.overflow /\ build = "debug" THEN Stop(st, "panic")
    ELSE BlockLoop([st EXCEPT !.blocks[block_idx + 1] =
                        [r.blk EXCEPT !.score = r.blk.score + r.hout]],
                   peq, col_idx, block_idx + 1, r.hout, build)

BlockLoop(st, peq, col_idx, block_idx, hout, build) ==
    IF st.status # "run" \/ block_idx > st.last THEN [st EXCEPT !.hout = hout]
    ELSE IF block_idx >= Len(st.blocks) \/ col_idx + block_idx >= Len(peq)
         THEN Stop(st, "panic")
    ELSE BlockLoopStep(st, peq, col_idx, block_idx,
                       calculate_hout_delta(st.blocks[block_idx + 1],
                                            peq[col_idx + block_idx + 1], hout),
                       build)

\* Block::all_block_cells_larger is called by the semi-global sweep and is
\* not defined in the sources: every cell value of the block exceeds k.
all_block_cells_larger(blk, k) ==
    LET scores == get_cell_values(blk)
    IN  \A i \in 1 .. Len(scores) : scores[i] > k

\* ------------------------------------------- calc_edit_dst_semi_global
\* Locals before the column loop.
SemiInit(k, max_num_blocks, query_len, mode) ==
    LET last_block_idx == Min(k + (1 \div WORD_SIZE), max_num_blocks)
        k1 == IF mode = "HW" THEN Min(query_len, k) ELSE k
    IN  [status |-> IF FitsIsize(k1) THEN "run" ELSE "err",
         k |-> k1, first |-> 0, last |-> last_block_idx,
         blocks |-> InitBlocks(last_block_idx),
         best |-> None, positions |-> <<>>, hout |-> 0, idx |-> 0]

\* if last_block_idx < max_num_blocks - 1 && ... { expand } (the block that is
\* reset and advanced is blocks[last_block_idx - 1]); r is what
\* calculate_hout_delta returned for the reset block.
SemiExpandSet(st, old_score, hout, r, build) ==
    IF r.overflow /\ build = "debug" THEN Stop(st, "panic")
    ELSE [st EXCEPT !.last = st.last + 1,
                    !.blocks[st.last] =
                        [r.blk EXCEPT !.score = ((old_score - hout) + WORD_SIZE) + r.hout]]

SemiExpand(st, next_peq_c, hout, build) ==
    SemiExpandSet(st, st.blocks[st.last].score, hout,
                  calculate_hout_delta([st.blocks[st.last] EXCEPT !.p = WORD_MAX, !.m = WORD_0],
                                       next_peq_c, hout),
                  build)

\* else { loop { let last_block = &blocks[last_block_idx - 1]; ... } }
RECURSIVE SemiContract(_)
SemiContract(st) ==
    IF st.last = 0 \/ st.last - 1 >= Len(st.blocks) THEN Stop(st, "panic")
    ELSE IF ~(st.last > st.first /\ st.blocks[st.last].score >= st.k + WORD_SIZE) THEN st
    ELSE SemiContract([st EXCEPT !.last = st.last - 1])

\* strong reduction of the last block
RECURSIVE SemiStrongLast(_)
SemiStrongLast(st) ==
    IF st.last >= Len(st.blocks) THEN Stop(st, "panic")
    ELSE IF ~(st.last > st.first /\ all_block_cells_larger(st.blocks[st.last + 1], st.k)) THEN st
    ELSE SemiStrongLast([st EXCEPT !.last = st.last - 1])

\* while first_block_idx <= last_block_idx && blocks[first_block_idx].score >= k + W
RECURSIVE SemiFirst(_)
SemiFirst(st) ==
    IF ~(st.first <= st.last) THEN st
    ELSE IF st.first >= Len(st.blocks) THEN Stop(st, "panic")
    ELSE IF ~(st.blocks[st.first + 1].score >= st.k + WORD_SIZE) THEN st
    ELSE SemiFirst([st EXCEPT !.first = st.first + 1])

\* strong reduction of the first block: first_block is bound once before the loop
SemiStrongFirst(st) ==
    IF st.status # "run" THEN st
    ELSE IF st.first >= Len(st.blocks) THEN Stop(st, "panic")
    ELSE IF st.first <= st.last /\ all_block_cells_larger(st.blocks[st.first + 1], st.k)
         THEN [st EXCEPT !.first = st.last + 1]
    ELSE st

\* Update best score with the column's bottom score; pos is the pushed position.
SemiRecord(st, col_score, pos) ==
    IF ~(col_score <= st.k) THEN st
    ELSE IF ~(IsNone(st.best) \/ col_score <= Unwrap(st.best)) THEN st
    ELSE IF Some(col_score) # st.best
         THEN IF ~FitsUsize(col_score) THEN Stop([st EXCEPT !.positions = <<>>], "err")
              ELSE [st EXCEPT !.positions = <<pos>>, !.best = Some(col_score),
                              !.k = col_score]
    ELSE [st EXCEPT !.positions = Append(st.positions, pos)]

\* Adjust number of blocks according to Ukkonen (dst.rs 71-94); s1 is the
\* state after the block loop, with the last block's hout in s1.hout.
SemiAdjust(s1, peq, col_idx, max_num_blocks, build) ==
    IF s1.status # "run" THEN s1
    ELSE IF col_idx + s1.last >= Len(peq) THEN Stop(s1, "panic")
    ELSE IF s1.last < max_num_blocks - 1
         THEN IF s1.last = 0 \/ s1.last - 1 >= Len(s1.blocks) THEN Stop(s1, "panic")
              ELSE IF s1.blocks[s1.last].score - s1.hout <= s1.k
                      /\ (WAnd(peq[col_idx + s1.last + 1], WORD_1) # WORD_0 \/ s1.hout < 0)
                   THEN SemiExpand(s1, peq[col_idx + s1.last + 1], s1.hout, build)
              ELSE SemiContract(s1)
    ELSE SemiContract(s1)

\* Every some columns, do some expensive but also more efficient block reducing.
SemiStrong(s2, c) ==
    IF s2.status = "run" /\ c % STRONG_REDUCE_NUM = 0 THEN SemiStrongLast(s2) ELSE s2

\* For HW, even if all cells are > k, there still may be solution in next column.
SemiShw(s3, c, mode) ==
    IF s3.status = "run" /\ mode = "SHW"
    THEN IF c % STRONG_REDUCE_NUM = 0 THEN SemiStrongFirst(SemiFirst(s3)) ELSE SemiFirst(s3)
    ELSE s3

\* If band stops to exist finish; if last block of column was calculated,
\* update the best score (dst.rs 131-158).
SemiColumnEnd(s4, c, w, max_num_blocks) ==
    IF s4.status # "run" THEN s4
    ELSE IF s4.last < s4.first THEN Stop(s4, "ret")
    ELSE IF s4.last = max_num_blocks - 1
         THEN SemiRecord(s4, s4.blocks[s4.last + 1].score, c - w)
    ELSE s4

SemiNextColumn(s5) == [s5 EXCEPT !.idx = s5.idx + 1]

\* One iteration of `for (idx, c) in target.iter().enumerate()`, the column
\* being st.idx and c = target[st.idx]; col_idx = idx + c * max_num_blocks.
SemiColumn(st, peq, w, max_num_blocks, target, mode, build) ==
    SemiNextColumn(
        SemiColumnEnd(
            SemiShw(
                SemiStrong(
                    SemiAdjust(
                        BlockLoop(st, peq, ColIdx(st.idx, target[st.idx + 1], max_num_blocks),
                                  st.first, IF mode = "HW" THEN 0 ELSE 1, build),
                        peq, ColIdx(st.idx, target[st.idx + 1], max_num_blocks),
                        max_num_blocks, build),
                    target[st.idx + 1]),
                target[st.idx + 1], mode),
            target[st.idx + 1], w, max_num_blocks))

\* Obtain results for last W columns from last column, then return.
SemiTailStep(st, block_scores, block_score_idx, w, target_len) ==
    LET col_score == block_scores[block_score_idx + 2]
        pos == (target_len - w) + block_score_idx
    IN  IF st.status # "run" THEN st
        ELSE IF col_score <= st.k /\ (IsNone(st.best) \/ Unwrap(st.best) >= col_score)
        THEN IF Some(col_score) # st.best
             THEN IF ~FitsUsize(col_score)
                  THEN Stop([st EXCEPT !.positions = <<>>, !.k = col_score], "err")
                  ELSE [st EXCEPT !.positions = <<pos>>, !.k = col_score,
                                  !.best = Some(col_score)]
             ELSE [st EXCEPT !.positions = Append(st.positions, pos)]
        ELSE st

SemiTail(st, block_scores, w, target_len) ==
    FoldRange(LAMBDA acc, i : SemiTailStep(acc, block_scores, i, w, target_len), st, 0, w - 1)

SemiDone(s1) == IF s1.status = "run" THEN Stop(s1, "ret") ELSE s1

SemiFinish(st, w, max_num_blocks, target_len) ==
    SemiDone(IF st.last = max_num_blocks - 1
             THEN IF st.last >= Len(st.blocks) THEN Stop(st, "panic")
                  ELSE SemiTail(st, get_cell_values(st.blocks[st.last + 1]), w, target_len)
             ELSE st)

\* The whole function, as called with a target of its own (the reverse pass).
RECURSIVE SemiColumns(_, _, _, _, _, _, _)
SemiColumns(st, peq, w, max_num_blocks, target, mode, build) ==
    IF st.status # "run" THEN st
    ELSE IF st.idx >= Len(target) THEN SemiFinish(st, w, max_num_blocks, Len(target))
    ELSE SemiColumns(SemiColumn(st, peq, w, max_num_blocks, target, mode, build),
                     peq, w, max_num_blocks, target, mode, build)

calc_edit_dst_semi_global(peq, w, max_num_blocks, query_len, target, k, mode, build) ==
    SemiColumns(SemiInit(k, max_num_blocks, query_len, mode),
                peq, w, max_num_blocks, target, mode, build)

\* --------------------------------------------------- calc_edit_dst_nw
\* NWInit without the test of the two optional arguments
NWInit_NoArgumentTest(k, max_num_blocks, query_len, target_len, has_align_data, target_stop_position) ==
    LET k1 == Min(k, Max(query_len, target_len))
        m == Min(max_num_blocks,
                 Min(k1, ((k1 + query_len) - (target_len \div 2)) + 1) \div WORD_SIZE)
        st0 == [status |-> "run", k |-> k1, first |-> 0, last |-> m - 1, lb |-> 0,
                blocks |-> InitBlocks(m - 1), hout |-> 0, idx |-> 0, score |-> None]
    IN  IF k < AbsDiff(target_len, query_len) THEN Stop([st0 EXCEPT !.k = k], "ret")
        ELSE IF m = 0 THEN Stop(st0, "panic")
        ELSE st0

\* Locals before the column loop.  has_align_data / target_stop_position are
\* the two optional arguments (Alignment::run passes None for both).
\* st.lb is the index of the block the reference `last_block` points to.
NWInit(k, max_num_blocks, query_len, target_len, has_align_data, target_stop_position) ==
    LET k1 == Min(k, Max(query_len, target_len))
        m == Min(max_num_blocks,
                 Min(k1, ((k1 + query_len) - (target_len \div 2)) + 1) \div WORD_SIZE)
        st0 == [status |-> "run", k |-> k1, first |-> 0, last |-> m - 1, lb |-> 0,
                blocks |-> InitBlocks(m - 1), hout |-> 0, idx |-> 0, score |-> None]
    IN  IF IsSome(target_stop_position) /\ has_align_data THEN Stop([st0 EXCEPT !.k = k], "err")
        ELSE IF k < AbsDiff(target_len, query_len) THEN Stop([st0 EXCEPT !.k = k], "ret")
        \* min(...) - 1 underflows: a panic when checked, else a vector of 2^64 blocks
        ELSE IF m = 0 THEN Stop(st0, "panic")
        ELSE st0

\* k - score + 2 * W - 2 - |target| + c + |query| in usize, left to right:
\* ovf iff an intermediate difference is negative, v its wrapped value.
NWBand(k, score, target_len, c, query_len) ==
    LET t1 == k - score
        t2 == ((t1 + (2 * WORD_SIZE)) - 2) - target_len
    IN  [ovf |-> t1 < 0 \/ t2 < 0, v |-> Wrap((t2 + c) + query_len)]

\* NWTighten with k replaced by the column's bound instead of the smaller of the two
NWTighten_Uncapped(st, w, max_num_blocks, query_len, target_len, c, build) ==
    LET a == (target_len - c) - 1
        b == (query_len - (((1 + st.last) * WORD_SIZE) - 1)) - 1
        pad == IF st.last = max_num_blocks - 1 THEN w ELSE 0
        sum == Wrap(Max(Wrap(a), Wrap(b)) + pad)
        cmp == st.blocks[st.lb + 1].score + sum
    IN  IF build = "debug" /\ (a < 0 \/ b < 0) THEN Stop(st, "panic")
        ELSE IF ~FitsIsize(sum) \/ ~FitsUsize(cmp) THEN Stop(st, "err")
        ELSE [st EXCEPT !.k = cmp]

\* k = min(k, last_block.score + max(|target| - c - 1, |query| - ((1 + last) * W - 1) - 1) + pad)
NWTighten(st, w, max_num_blocks, query_len, target_len, c, build) ==
    LET a == (target_len - c) - 1
        b == (query_len - (((1 + st.last) * WORD_SIZE) - 1)) - 1
        pad == IF st.last = max_num_blocks - 1 THEN w ELSE 0
        sum == Wrap(Max(Wrap(a), Wrap(b)) + pad)
        cmp == st.blocks[st.lb + 1].score + sum
    IN  IF build = "debug" /\ (a < 0 \/ b < 0) THEN Stop(st, "panic")
        ELSE IF ~FitsIsize(sum) \/ ~FitsUsize(cmp) THEN Stop(st, "err")
        ELSE [st EXCEPT !.k = Min(st.k, cmp)]

\* The new block of an expansion (dst.rs 331-341); r is what
\* calculate_hout_delta returned for it.
NWExpandSet(st, r, build) ==
    IF r.overflow /\ build = "debug" THEN Stop(st, "panic")
    ELSE [st EXCEPT !.last = st.last + 1, !.lb = st.last + 1,
                    !.blocks[st.last + 2] =
                        [r.blk EXCEPT !.score =
                            ((st.blocks[st.last + 1].score - st.hout) + WORD_SIZE) + r.hout]]

\* if last_block_idx + 1 < max_num_blocks && ... { calculate next block }
NWExpandIf(st, peq, col_idx, band, build) ==
    IF ~FitsUsize(st.blocks[st.lb + 1].score) THEN Stop(st, "err")
    ELSE IF build = "debug" /\ band.ovf THEN Stop(st, "panic")
    ELSE IF ~((((st.last + 1) * WORD_SIZE) - 1) <= band.v) THEN st
    ELSE IF st.last + 1 >= Len(st.blocks) \/ col_idx + st.last + 1 >= Len(peq)
         THEN Stop(st, "panic")
    ELSE NWExpandSet(st,
                     calculate_hout_delta(
                         [st.blocks[st.last + 2] EXCEPT !.p = WORD_MAX, !.m = WORD_0],
                         peq[col_idx + st.last + 2], st.hout),
                     build)

NWExpand(st, peq, col_idx, max_num_blocks, query_len, target_len, c, build) ==
    IF st.status # "run" \/ ~(st.last + 1 < max_num_blocks) THEN st
    ELSE NWExpandIf(st, peq, col_idx,
                    NWBand(st.k, st.blocks[st.lb + 1].score, target_len, c, query_len), build)

\* while last >= first && last_block.score >= k + W || (last + 1) * W - 1 > band + 1
RECURSIVE NWContract(_, _, _, _, _)
NWContract(st, query_len, target_len, c, build) ==
    IF st.status # "run" THEN st
    ELSE LET sc == st.blocks[st.lb + 1].score
             band == NWBand(st.k, sc, target_len, c, query_len)
             dec == IF st.last = 0 THEN Stop(st, "panic")
                    ELSE NWContract([st EXCEPT !.last = st.last - 1, !.lb = st.last - 1],
                                    query_len, target_len, c, build)
         IN  IF st.last >= st.first /\ sc >= st.k + WORD_SIZE THEN dec
             ELSE IF ~FitsUsize(sc) THEN Stop(st, "err")
             ELSE IF build = "debug" /\ band.ovf THEN Stop(st, "panic")
             ELSE IF (((st.last + 1) * WORD_SIZE) - 1) > Wrap(band.v + 1) THEN dec
             ELSE st

\* while first <= last && (blocks[first].score >= k + W || (first + 1) * W - 1 < ...)
RECURSIVE NWFirst(_, _, _, _, _)
NWFirst(st, query_len, target_len, c, build) ==
    IF st.status # "run" \/ ~(st.first <= st.last) THEN st
    ELSE LET sc == st.blocks[st.first + 1].score
             t1 == st.k - target_len
             inner == Wrap((t1 + query_len) + c)
             inc == NWFirst([st EXCEPT !.first = st.first + 1], query_len, target_len, c, build)
         IN  IF sc >= st.k + WORD_SIZE THEN inc
             ELSE IF build = "debug" /\ t1 < 0 THEN Stop(st, "panic")
             ELSE IF ~FitsIsize(inner) \/ ~FitsUsize(sc - inner) THEN Stop(st, "err")
             ELSE IF (((st.first + 1) * WORD_SIZE) - 1) < sc - inner THEN inc
             ELSE st

\* The inner `for score in scores...` of a strong reduction of block b: TRUE iff
\* some cell breaks out of the outer loop; the j-th cell visited has row r - j.
NWCellInBand(scores, num_cells, r, k, rest) ==
    \E j \in 0 .. (num_cells - 1) :
        LET score == scores[(WORD_SIZE - num_cells) + j + 1]
        IN  score <= k /\ r - j <= ((k - score) - rest) + 1

NWInBand(st, b, w, max_num_blocks, query_len, target_len, c) ==
    LET num_cells == IF b = max_num_blocks - 1 THEN WORD_SIZE - w ELSE WORD_SIZE
    IN  NWCellInBand(get_cell_values(st.blocks[b + 1]), num_cells,
                     ((b * WORD_SIZE) + num_cells) - 1, st.k,
                     (target_len + c) + query_len)

\* 'outer: while last_block_idx >= first_block_idx { ...; last_block_idx -= 1 }
\* With block 0 and no cell in the band, r -= 1 underflows after the last cell
\* (a panic when checked) and last_block_idx -= 1 wraps, so that the next
\* blocks[last_block_idx] is out of range: a panic in either build.
RECURSIVE NWStrongLast(_, _, _, _, _, _)
NWStrongLast(st, w, max_num_blocks, query_len, target_len, c) ==
    IF st.status # "run" \/ ~(st.last >= st.first) THEN st
    ELSE IF NWInBand(st, st.last, w, max_num_blocks, query_len, target_len, c) THEN st
    ELSE IF st.last = 0 THEN Stop(st, "panic")
    ELSE NWStrongLast([st EXCEPT !.last = st.last - 1],
                      w, max_num_blocks, query_len, target_len, c)

\* 'outer: while first_block_idx <= last_block_idx { ...; first_block_idx += 1 }
RECURSIVE NWStrongFirst(_, _, _, _, _, _, _)
NWStrongFirst(st, w, max_num_blocks, query_len, target_len, c, build) ==
    IF st.status # "run" \/ ~(st.first <= st.last) THEN st
    ELSE IF NWInBand(st, st.first, w, max_num_blocks, query_len, target_len, c) THEN st
    ELSE IF st.first = 0 /\ build = "debug" THEN Stop(st, "panic")
    ELSE NWStrongFirst([st EXCEPT !.first = st.first + 1],
                       w, max_num_blocks, query_len, target_len, c, build)

\* If last block of last column was calculated: the score is written only
\* through best_score and position, both of which must be Some.
NWFinish(st, w, max_num_blocks, has_best_score, has_position) ==
    IF st.status # "run" THEN st
    ELSE IF st.last = max_num_blocks - 1
         THEN LET last_best_score == get_cell_values(st.blocks[st.last + 1])[w + 1]
              IN  IF last_best_score <= st.k
                  THEN IF has_best_score /\ has_position
                       THEN IF ~FitsUsize(last_best_score) THEN Stop(st, "err")
                            ELSE Stop([st EXCEPT !.score = Some(last_best_score)], "ret")
                       ELSE Stop(st, "ret")
                  ELSE Stop(st, "ret")
    ELSE Stop(st, "ret")

\* let mut last_block = &mut blocks[last_block_idx - 1]; then the tightening of k
NWLastBlock(s1, w, max_num_blocks, query_len, target_len, c, build) ==
    IF s1.status # "run" THEN s1
    ELSE IF s1.last = 0 \/ s1.last - 1 >= Len(s1.blocks) THEN Stop(s1, "panic")
    ELSE NWTighten([s1 EXCEPT !.lb = s1.last - 1], w, max_num_blocks,
                   query_len, target_len, c, build)

\* Every some columns do more expensive but more efficient reduction.
NWStrong(s5, w, max_num_blocks, query_len, target_len, c, build) ==
    IF s5.status = "run" /\ c % STRONG_REDUCE_NUM = 0
    THEN NWStrongFirst(NWStrongLast(s5, w, max_num_blocks, query_len, target_len, c),
                       w, max_num_blocks, query_len, target_len, c, build)
    ELSE s5

\* If band stops to exist, finish.
NWBandCheck(s6) ==
    IF s6.status = "run" /\ s6.last < s6.first THEN Stop(s6, "ret") ELSE s6

\* The next column, or the function's closing part after the last one.
NWColumnEnd(s8, w, max_num_blocks, target_len, has_best_score, has_position) ==
    IF s8.status = "run" /\ s8.idx >= target_len
    THEN NWFinish(s8, w, max_num_blocks, has_best_score, has_position)
    ELSE s8

NWNextColumn(s7) == [s7 EXCEPT !.idx = s7.idx + 1]

\* One iteration of the column loop (align_data = None), the column being
\* st.idx and c = target[st.idx]; col_idx = idx + c * max_num_blocks.
NWColumnBody(st, peq, w, max_num_blocks, query_len, target, build) ==
    NWBandCheck(
        NWStrong(
            NWFirst(
                NWContract(
                    NWExpand(
                        NWLastBlock(
                            BlockLoop(st, peq,
                                      ColIdx(st.idx, target[st.idx + 1], max_num_blocks),
                                      st.first, 1, build),
                            w, max_num_blocks, query_len, Len(target),
                            target[st.idx + 1], build),
                        peq, ColIdx(st.idx, target[st.idx + 1], max_num_blocks),
                        max_num_blocks, query_len, Len(target), target[st.idx + 1], build),
                    query_len, Len(target), target[st.idx + 1], build),
                query_len, Len(target), target[st.idx + 1], build),
            w, max_num_blocks, query_len, Len(target), target[st.idx + 1], build))

NWColumn(st, peq, w, max_num_blocks, query_len, target, has_best_score, has_position, build) ==
    NWColumnEnd(
        NWNextColumn(NWColumnBody(st, peq, w, max_num_blocks, query_len, target, build)),
        w, max_num_blocks, Len(target), has_best_score, has_position)

\* AlignmentData::new(max_num_blocks, target_len)
AlignmentData_new(max_num_blocks, target_len) ==
    [ps |-> [i \in 1 .. (max_num_blocks * target_len) |-> None],
     ms |-> [i \in 1 .. (max_num_blocks * target_len) |-> None],
     scores |-> [i \in 1 .. (max_num_blocks * target_len) |-> None],
     first_blocks |-> [i \in 1 .. target_len |-> None],
     last_blocks |-> [i \in 1 .. target_len |-> None]]

\* for (b, block) in blocks[first..=last].iter().enumerate() { align_data.ps[base + b] = .. }
\* on acc = [ad, status]
NWTraceBlock(st, acc, base, b) ==
    IF acc.status # "run" THEN acc
    ELSE IF base + b >= Len(acc.ad.ps) THEN [acc EXCEPT !.status = "panic"]
    ELSE [acc EXCEPT !.ad.ps[base + b + 1] = Some(st.blocks[st.first + b + 1].p),
                     !.ad.ms[base + b + 1] = Some(st.blocks[st.first + b + 1].m),
                     !.ad.scores[base + b + 1] = Some(st.blocks[st.first + b + 1].score)]

\* the loop, then align_data.first_blocks[at] = ..; align_data.last_blocks[at] = ..
NWTraceMark(st, acc, at) ==
    IF acc.status # "run" THEN acc
    ELSE IF at >= Len(acc.ad.first_blocks) THEN [acc EXCEPT !.status = "panic"]
    ELSE [acc EXCEPT !.ad.first_blocks[at + 1] = Some(st.first),
                     !.ad.last_blocks[at + 1] = Some(st.last)]

NWTraceSave(st, acc, base, at) ==
    IF acc.status # "run" THEN acc
    ELSE IF st.last >= Len(st.blocks) THEN [acc EXCEPT !.status = "panic"]
    ELSE NWTraceMark(st,
                     FoldRange(LAMBDA a, b : NWTraceBlock(st, a, base, b), acc,
                               0, st.last - st.first),
                     at)

\* if Some(*c) == target_stop_position { save at 0; *position = stop; return Ok(()) }
NWTraceStop(st, acc, target_stop_position, c) ==
    IF acc.status = "run" /\ Some(c) = target_stop_position
    THEN [NWTraceSave(st, acc, 0, 0) EXCEPT !.stopped = TRUE]
    ELSE acc

\* Save column so it can be used for reconstruction (dst.rs 434-464), for
\* align_data = Some(ad): the trace after the column, whether the function
\* goes on ("run") or panics, and whether it returns at the stop column.
NWTrace(st, ad, target_stop_position, max_num_blocks, target_len, c) ==
    NWTraceStop(st,
                IF c < target_len
                THEN NWTraceSave(st, [ad |-> ad, status |-> "run", stopped |-> FALSE],
                                 max_num_blocks + c, c)
                ELSE [ad |-> ad, status |-> "run", stopped |-> FALSE],
                target_stop_position, c)

\* ------------------------------------------------------- Alignment::run
\* Inputs.  Sequences over a two-letter alphabet up to MaxLen, the scenarios
\* of the documentation and tests, and queries of one and two Words' length;
\* ks are the values of k tried with a scenario beside those of Ks.
Sigma == {65, 67}
Seqs == UNION {[1 .. n -> Sigma] : n \in 0 .. MaxLen}
Rep(ch, n) == [i \in 1 .. n |-> ch]

Scenarios ==
    { [query |-> <<65, 67, 84>>, target |-> <<67, 71, 84>>, added |-> {}, ks |-> {}],
      [query |-> <<65, 65, 67, 84>>, target |-> <<65, 65, 67, 84, 71, 71, 67>>,
       added |-> {}, ks |-> {}],
      [query |-> <<65, 67, 84>>, target |-> <<67, 71, 65, 67, 84, 71, 65, 67>>,
       added |-> {}, ks |-> {}],
      [query |-> <<65, 67, 71, 84>>, target |-> <<65, 67, 71, 84>>, added |-> {}, ks |-> {}],
      [query |-> <<104, 101, 108, 108, 111>>, target |-> <<119, 111, 114, 108, 100, 33>>,
       added |-> {}, ks |-> {}],
      [query |-> <<65, 84>>, target |-> <<84, 65>>, added |-> {<<65, 84>>}, ks |-> {}],
      [query |-> <<>>, target |-> <<65, 66, 67>>, added |-> {}, ks |-> {}],
      [query |-> <<67>> \o Rep(65, WORD_SIZE - 1), target |-> <<65, 67>>, added |-> {},
       ks |-> {<<WORD_SIZE - 2>>}],
      [query |-> Rep(65, 2 * WORD_SIZE), target |-> <<65, 65>>, added |-> {},
       ks |-> {<<2 * WORD_SIZE>>}],
      [query |-> Rep(65, 2 * WORD_SIZE), target |-> Rep(65, 2 * WORD_SIZE), added |-> {},
       ks |-> {<<2 * WORD_SIZE>>}] }

Inputs ==
    {[query |-> q, target |-> t, added |-> {}, ks |-> {}] : q \in Seqs, t \in Seqs}
        \cup Scenarios

Modes == {"NW", "SHW", "HW"}
Tasks == {"Distance", "Loc", "Path"}
Builds == {"debug", "release"}
Ks == {None} \cup {Some(k) : k \in 0 .. MaxK}

VARIABLES build, query, target, config, pc, outcome, alignment, loc, sw

vars == <<build, query, target, config, pc, outcome, alignment, loc, sw>>

\* Alignment::default()
Alignment_default ==
    [edit_distance |-> None, end_locations |-> None, start_locations |-> None,
     alignment |-> None, alphabet_length |-> 0]

Idle == [status |-> "idle"]

Init ==
    /\ build \in Builds
    /\ \E inp \in Inputs, mode \in Modes, task \in Tasks :
          \E k \in Ks \cup inp.ks :
             /\ query = inp.query
             /\ target = inp.target
             /\ config = [k |-> k, mode |-> mode, task |-> task,
                          added_equalities |-> inp.added]
    /\ pc = "begin"
    /\ outcome = "none"
    /\ alignment = Alignment_default
    /\ loc = [alphabet |-> <<>>, query |-> <<>>, target |-> <<>>, peq |-> <<>>,
              max_num_blocks |-> 0, w |-> 0, k |-> 0, dynamic_k |-> FALSE, sweeps |-> 0]
    /\ sw = Idle

\* run returns: Ok(alignment), Err(..) or a panic.
Return(how) == pc' = "done" /\ outcome' = how

SweepPc == IF config.mode = "NW" THEN "nw_init" ELSE "semi_init"

\* align.rs 150-170: special case where one of the sequences is empty; k is
\* not consulted.  EmptyFastPath_EndAtTargetEnd is the variant that reports
\* the target's last position in the semi-global modes as well.
EmptyFastPath_EndAtTargetEnd(al, mode, transformed_query, transformed_target) ==
    IF mode = "NW"
    THEN [al EXCEPT !.edit_distance = Some(Max(Len(transformed_query), Len(transformed_target))),
                    !.end_locations = Some(<<Len(transformed_target) - 1>>)]
    ELSE [al EXCEPT !.edit_distance = Some(Len(transformed_query)),
                    !.end_locations = Some(<<Len(transformed_target) - 1>>)]

EmptyFastPath(al, mode, transformed_query, transformed_target) ==
    IF mode = "NW"
    THEN [al EXCEPT !.edit_distance = Some(Max(Len(transformed_query), Len(transformed_target))),
                    !.end_locations = Some(<<Len(transformed_target) - 1>>)]
    ELSE [al EXCEPT !.edit_distance = Some(Len(transformed_query)),
                    !.end_locations = Some(<<-1>>)]

\* align.rs 143-191: transform, empty-sequence fast paths, initialization.
Run_Begin ==
    /\ pc = "begin"
    /\ LET tr == transform_sequences(query, target)
           A == StrLen(tr.alphabet)
           al == [alignment EXCEPT !.alphabet_length = A]
           max_num_blocks == CeilDiv(Len(tr.query), WORD_SIZE)
           eq_def == EqualityDefinition_new(tr.alphabet, config.added_equalities)
           peq == build_peq_table(A, tr.query, eq_def)
       IN  IF tr.status # "ok"
           THEN Return(tr.status) /\ UNCHANGED <<alignment, loc>>
           ELSE IF tr.query = <<>> \/ tr.target = <<>>
           THEN /\ alignment' = EmptyFastPath(al, config.mode, tr.query, tr.target)
                /\ Return("ok")
                /\ UNCHANGED loc
           ELSE IF peq.status # "ok"
           THEN alignment' = al /\ Return(peq.status) /\ UNCHANGED loc
           ELSE /\ alignment' = al
                /\ loc' = [alphabet |-> tr.alphabet, query |-> tr.query, target |-> tr.target,
                           peq |-> peq.table, max_num_blocks |-> max_num_blocks,
                           w |-> (max_num_blocks * WORD_SIZE) - Len(tr.query),
                           k |-> IF IsSome(config.k) THEN Unwrap(config.k) ELSE WORD_SIZE,
                           dynamic_k |-> IsNone(config.k), sweeps |-> 1]
                /\ pc' = SweepPc
                /\ outcome' = outcome
    /\ UNCHANGED <<build, query, target, config, sw>>

\* A sweep that has stopped: its effect on the caller.
SemiReturned(st) ==
    [alignment EXCEPT !.edit_distance = st.best,
                      !.end_locations = IF IsSome(st.best) THEN Some(st.positions) ELSE @]

AfterSemi(st) ==
    /\ sw' = st
    /\ IF st.status = "ret"
       THEN alignment' = SemiReturned(st) /\ pc' = "loop_end" /\ outcome' = outcome
       ELSE IF st.status \in {"err", "panic"}
       THEN Return(st.status) /\ UNCHANGED alignment
       ELSE /\ pc' = IF st.idx >= Len(loc.target) THEN "semi_fin" ELSE "semi_col"
            /\ UNCHANGED <<alignment, outcome>>

\* dst.rs 31-55
Semi_Init ==
    /\ pc = "semi_init"
    /\ AfterSemi(SemiInit(loc.k, loc.max_num_blocks, Len(loc.query), config.mode))
    /\ UNCHANGED <<build, query, target, config, loc>>

\* dst.rs 57-159
Semi_Column ==
    /\ pc = "semi_col"
    /\ AfterSemi(SemiColumn(sw, loc.peq, loc.w, loc.max_num_blocks, loc.target,
                            config.mode, build))
    /\ UNCHANGED <<build, query, target, config, loc>>

\* dst.rs 161-189
Semi_Finish ==
    /\ pc = "semi_fin"
    /\ AfterSemi(SemiFinish(sw, loc.w, loc.max_num_blocks, Len(loc.target)))
    /\ UNCHANGED <<build, query, target, config, loc>>

\* best_score = self.edit_distance.as_mut(); position = None (position_nw)
AfterNW(st) ==
    /\ sw' = st
    /\ IF st.status = "ret"
       THEN /\ alignment' = IF IsSome(st.score)
                            THEN [alignment EXCEPT !.edit_distance = st.score]
                            ELSE alignment
            /\ pc' = "loop_end"
            /\ outcome' = outcome
       ELSE IF st.status \in {"err", "panic"}
       THEN Return(st.status) /\ UNCHANGED alignment
       ELSE pc' = "nw_col" /\ UNCHANGED <<alignment, outcome>>

\* dst.rs 219-265
NW_Init ==
    /\ pc = "nw_init"
    /\ AfterNW(NWInit(loc.k, loc.max_num_blocks, Len(loc.query), Len(loc.target), FALSE, None))
    /\ UNCHANGED <<build, query, target, config, loc>>

\* dst.rs 276-481: one column, and after the last one the closing part
NW_Column ==
    /\ pc = "nw_col"
    /\ AfterNW(NWColumn(sw, loc.peq, loc.w, loc.max_num_blocks, Len(loc.query), loc.target,
                        IsSome(alignment.edit_distance), FALSE, build))
    /\ UNCHANGED <<build, query, target, config, loc>>

\* Run_LoopEnd with the test of dynamic_k left out
Run_LoopEnd_RetryAlways ==
    /\ pc = "loop_end"
    /\ IF IsNone(alignment.edit_distance)
       THEN /\ loc.sweeps < MaxRetries + 1
            /\ loc' = [loc EXCEPT !.k = loc.k * 2, !.sweeps = loc.sweeps + 1]
            /\ pc' = SweepPc
       ELSE /\ loc' = [loc EXCEPT !.k = loc.k * 2]
            /\ pc' = "locations"
    /\ UNCHANGED <<build, query, target, config, outcome, alignment, sw>>

\* align.rs 219-224: k *= 2; leave the loop unless dynamic_k and no distance.
Run_LoopEnd ==
    /\ pc = "loop_end"
    /\ IF loc.dynamic_k /\ IsNone(alignment.edit_distance)
       THEN /\ loc.sweeps < MaxRetries + 1
            /\ loc' = [loc EXCEPT !.k = loc.k * 2, !.sweeps = loc.sweeps + 1]
            /\ pc' = SweepPc
       ELSE /\ loc' = [loc EXCEPT !.k = loc.k * 2]
            /\ pc' = "locations"
    /\ UNCHANGED <<build, query, target, config, outcome, alignment, sw>>

\* iter().rev().copied().collect()
Reverse(seq) == [i \in 1 .. Len(seq) |-> seq[(Len(seq) - i) + 1]]

\* start_locations[i] = v, when start_locations is Some
HWSet(acc, i, v) ==
    IF IsNone(acc.start) THEN acc
    ELSE IF i >= Len(Unwrap(acc.start)) THEN [acc EXCEPT !.status = "panic"]
    ELSE [acc EXCEPT !.start = Some([Unwrap(acc.start) EXCEPT ![i + 1] = v])]

\* align.rs 268-287: rev is the reverse Alignment's sweep once it has stopped;
\* its end_locations are Some(rev.positions) iff a best score was found.
HWRevDone(acc, i, e, rev) ==
    IF rev.status # "ret" THEN [acc EXCEPT !.status = rev.status]
    ELSE IF IsNone(rev.best) THEN acc
    ELSE IF rev.positions = <<>> THEN [acc EXCEPT !.status = "panic"]
    ELSE HWSet(acc, i, e - rev.positions[Len(rev.positions)])

\* align.rs 242-289: one iteration of the loop over the end locations in infix
\* mode; acc is [status, start] with start the (optional) start_locations.
HWStart(acc, ends, i, rev_peq, edit_distance) ==
    IF acc.status # "ok" THEN acc
    ELSE IF ends[i + 1] = -1 THEN HWSet(acc, i, 0)
    ELSE IF ends[i + 1] < 0 THEN [acc EXCEPT !.status = "err"]
    ELSE IF (Len(loc.target) - ends[i + 1]) - 1 < 0 THEN [acc EXCEPT !.status = "panic"]
    ELSE HWRevDone(acc, i, ends[i + 1],
                   calc_edit_dst_semi_global(rev_peq, loc.w, loc.max_num_blocks,
                       Len(loc.query),
                       <<Reverse(loc.target)[((Len(loc.target) - ends[i + 1]) - 1) + 1]>>,
                       edit_distance, "SHW", build))

HWStarts(acc, ends, rev_peq, edit_distance) ==
    FoldRange(LAMBDA a, i : HWStart(a, ends, i, rev_peq, edit_distance), acc, 0, Len(ends) - 1)

\* align.rs 226-299: end location of global mode, start locations.
Run_Locations ==
    /\ pc = "locations"
    /\ LET al1 == IF config.mode = "NW"
                  THEN [alignment EXCEPT !.end_locations = Some(<<Len(loc.target) - 1>>)]
                  ELSE alignment
           eq_def == EqualityDefinition_new(loc.alphabet, config.added_equalities)
           rev_peq == build_peq_table(StrLen(loc.alphabet), Reverse(loc.query), eq_def)
           hw == HWStarts([status |-> "ok", start |-> al1.start_locations],
                          Unwrap(al1.end_locations), rev_peq.table,
                          Unwrap(al1.edit_distance))
       IN  IF IsNone(alignment.edit_distance) \/ config.task = "Distance"
           THEN /\ alignment' = IF IsNone(alignment.edit_distance) THEN alignment ELSE al1
                /\ pc' = "path" /\ outcome' = outcome
           ELSE IF config.mode = "HW"
           THEN IF rev_peq.status # "ok" THEN alignment' = al1 /\ Return(rev_peq.status)
                ELSE IF IsNone(al1.end_locations) THEN alignment' = al1 /\ Return("panic")
                ELSE IF hw.status # "ok"
                THEN alignment' = [al1 EXCEPT !.start_locations = hw.start] /\ Return(hw.status)
                ELSE /\ alignment' = [al1 EXCEPT !.start_locations = hw.start]
                     /\ pc' = "path" /\ outcome' = outcome
           ELSE /\ alignment' =
                      IF IsSome(al1.start_locations)
                      THEN [al1 EXCEPT !.start_locations =
                               Some([i \in 1 .. Len(Unwrap(al1.start_locations)) |-> 0])]
                      ELSE al1
                /\ pc' = "path" /\ outcome' = outcome
    /\ UNCHANGED <<build, query, target, config, loc, sw>>

\* Alignment::obtain_optimal_path: the alignment field after the call.
obtain_optimal_path(al, q, t) ==
    IF q = <<>> THEN [al EXCEPT !.alignment = Some(Rep("Delete", Len(t) + Len(q)))]
    ELSE IF t = <<>> THEN [al EXCEPT !.alignment = Some(Rep("Insert", Len(t) + Len(q)))]
    ELSE al

\* align.rs 300-316: alignment path for the first pair of locations.
Run_Path ==
    /\ pc = "path"
    /\ LET starts == alignment.start_locations
           ends == alignment.end_locations
           aln_start_loc == Unwrap(starts)[1]
           aln_end_loc == Unwrap(ends)[1]
       IN  IF config.task # "Path" THEN Return("ok") /\ UNCHANGED alignment
           ELSE IF (IsSome(starts) /\ Unwrap(starts) = <<>>)
                   \/ (IsSome(ends) /\ Unwrap(ends) = <<>>)
           THEN Return("panic") /\ UNCHANGED alignment
           ELSE IF IsNone(starts) \/ IsNone(ends)
           THEN Return("err") /\ UNCHANGED alignment
           ELSE IF ~FitsUsize(aln_start_loc) \/ ~FitsUsize(aln_end_loc)
           THEN Return("err") /\ UNCHANGED alignment
           ELSE IF aln_start_loc > aln_end_loc \/ aln_end_loc > Len(loc.target)
           THEN Return("panic") /\ UNCHANGED alignment
           ELSE /\ alignment' = obtain_optimal_path(alignment, loc.query,
                                    SubSeq(loc.target, aln_start_loc + 1, aln_end_loc))
                /\ Return("ok")
    /\ UNCHANGED <<build, query, target, config, loc, sw>>

Next ==
    \/ Run_Begin
    \/ Semi_Init
    \/ Semi_Column
    \/ Semi_Finish
    \/ NW_Init
    \/ NW_Column
    \/ Run_LoopEnd
    \/ Run_Locations
    \/ Run_Path

Spec == Init /\ [][Next]_vars

\* ============================================================ reference
\* What the documentation promises, computed without the bit-vector sweeps:
\* the dynamic-programming table of the edit distance, row by row.
RefEq(a, b) ==
    a = b \/ <<a, b>> \in config.added_equalities \/ <<b, a>> \in config.added_equalities

Min3(a, b, c) == Min(a, Min(b, c))

\* row i of the table from row i - 1; a row holds columns 0 .. |t| at 1 .. |t| + 1
RefRow(q, t, i, prev) ==
    FoldRange(LAMBDA row, j :
                  Append(row, Min3(prev[j + 1] + 1, row[j] + 1,
                                   prev[j] + (IF RefEq(q[i], t[j]) THEN 0 ELSE 1))),
              <<prev[1] + 1>>, 1, Len(t))

\* the last row; in infix mode the alignment may start at any column for free
RefLastRow(mode, q, t) ==
    FoldRange(LAMBDA prev, i : RefRow(q, t, i, prev),
              [j \in 1 .. (Len(t) + 1) |-> IF mode = "HW" THEN 0 ELSE j - 1],
              1, Len(q))

RefMin(row) == CHOOSE v \in {row[j] : j \in 1 .. Len(row)} : \A j \in 1 .. Len(row) : v <= row[j]

Levenshtein(q, t) == RefLastRow("NW", q, t)[Len(t) + 1]

\* the distance a mode is documented to return
RefDistance(mode, q, t) ==
    IF mode = "NW" THEN Levenshtein(q, t) ELSE RefMin(RefLastRow(mode, q, t))

\* the positions of the target at which an alignment of distance d ends, ascending
RefEndsOf(row, d) ==
    FoldRange(LAMBDA acc, j : IF row[j + 1] = d THEN Append(acc, j - 1) ELSE acc,
              <<>>, 1, Len(row) - 1)

RefEnds(mode, q, t) == RefEndsOf(RefLastRow(mode, q, t), RefDistance(mode, q, t))

Count(ops, kinds) == Cardinality({i \in 1 .. Len(ops) : ops[i] \in kinds})

\* ops is an edit script of q against seg with d operations that are no Match
RefScript(ops, q, seg, d) ==
    /\ Count(ops, {"Match", "Mismatch", "Insert"}) = Len(q)
    /\ Count(ops, {"Match", "Mismatch", "Delete"}) = Len(seg)
    /\ Count(ops, {"Mismatch", "Insert", "Delete"}) = d

NonEmpty == query # <<>> /\ target # <<>>
Found == IsSome(alignment.edit_distance)

\* ================================================================ claims
\* C1: for every non-empty query and target, with no added equalities and k
\* unset, run in global mode returns edit_distance = the Levenshtein distance
\* of query and target and end_locations = [|target| - 1].
C1_GlobalDistance ==
    (pc = "done" /\ config.mode = "NW" /\ config.k = None
       /\ config.added_equalities = {} /\ NonEmpty) =>
        /\ outcome = "ok"
        /\ alignment.edit_distance = Some(Levenshtein(query, target))
        /\ alignment.end_locations = Some(<<Len(target) - 1>>)

\* C2: for every non-empty query and target with k unset, run in prefix mode
\* returns the least Levenshtein distance between the query and a prefix of
\* the target, in infix mode the least between the query and a substring of
\* the target, and end_locations lists the positions of the target at which
\* an alignment of that distance ends.
C2_SemiGlobalDistance ==
    (pc = "done" /\ config.mode \in {"SHW", "HW"} /\ config.k = None /\ NonEmpty) =>
        /\ outcome = "ok"
        /\ alignment.edit_distance = Some(RefDistance(config.mode, query, target))
        /\ alignment.end_locations = Some(RefEnds(config.mode, query, target))

\* C3: with k unset, run on a non-empty query and target returns, in every
\* mode, Ok with edit_distance present.
C3_DynamicKFinds ==
    (pc = "done" /\ config.k = None /\ NonEmpty) => (outcome = "ok" /\ Found)

\* C4: when no alignment exists within a caller-supplied k, run returns Ok
\* with edit_distance absent and never an error, for every mode and task.
C4_NoSolutionIsOk ==
    (/\ pc = "done"
     /\ IsSome(config.k)
     /\ RefDistance(config.mode, query, target) > Unwrap(config.k)) =>
        (outcome = "ok" /\ ~Found)

\* C5: whenever the caller supplies k and run returns a result with
\* edit_distance present, edit_distance <= k, in every mode and also when the
\* query or the target is empty.
C5_WithinK ==
    (pc = "done" /\ outcome = "ok" /\ IsSome(config.k) /\ Found) =>
        Unwrap(alignment.edit_distance) <= Unwrap(config.k)

\* C6: every end position of a result's end_locations lies in
\* [-1, |target| - 1], and the position a semi-global sweep records for the
\* target column c (sw.idx, 0-based) is c - w.
C6_EndPositions ==
    [][/\ (pc' = "done" /\ outcome' = "ok" /\ IsSome(alignment'.end_locations)) =>
              \A i \in 1 .. Len(Unwrap(alignment'.end_locations)) :
                  Unwrap(alignment'.end_locations)[i] \in -1 .. (Len(target) - 1)
       /\ (pc = "semi_col" /\ sw'.status \in {"run", "ret"}
             /\ sw'.positions # sw.positions) =>
              sw'.positions[Len(sw'.positions)] = sw.idx - loc.w]_vars

\* C7: with task Locations or Path and a solution found, the result's
\* start_locations is present and as long as end_locations, and in global and
\* prefix mode every start position is 0; with task Distance it is absent.
C7_StartLocations ==
    (pc = "done" /\ outcome = "ok") =>
        /\ (config.task \in {"Loc", "Path"} /\ Found) =>
               /\ IsSome(alignment.start_locations)
               /\ IsSome(alignment.end_locations)
               /\ Len(Unwrap(alignment.start_locations)) = Len(Unwrap(alignment.end_locations))
               /\ config.mode \in {"NW", "SHW"} =>
                      \A i \in 1 .. Len(Unwrap(alignment.start_locations)) :
                          Unwrap(alignment.start_locations)[i] = 0
        /\ config.task = "Distance" => IsNone(alignment.start_locations)

\* The reverse sweep of C8: prefix mode, the reversed query over the reversed
\* target prefix target[0..=e], k = edit_distance; its last end position.
RevSweep(e) ==
    calc_edit_dst_semi_global(
        build_peq_table(StrLen(loc.alphabet), Reverse(loc.query),
                        EqualityDefinition_new(loc.alphabet, config.added_equalities)).table,
        loc.w, loc.max_num_blocks, Len(loc.query), Reverse(SubSeq(loc.target, 1, e + 1)),
        Unwrap(alignment.edit_distance), "SHW", build)

RevEnd(e) == RevSweep(e).positions[Len(RevSweep(e).positions)]

\* C8: in infix mode with task Locations, for each end position e >= 0 the
\* start position is e - e_r, e_r being the last end position of the reverse
\* prefix-mode sweep over the reversed target[0..=e] with k = edit_distance.
C8_InfixStart ==
    (pc = "done" /\ outcome = "ok" /\ config.mode = "HW" /\ config.task = "Loc"
       /\ NonEmpty /\ Found /\ IsSome(alignment.end_locations)) =>
        /\ IsSome(alignment.start_locations)
        /\ Len(Unwrap(alignment.start_locations)) = Len(Unwrap(alignment.end_locations))
        /\ \A i \in 1 .. Len(Unwrap(alignment.end_locations)) :
               Unwrap(alignment.end_locations)[i] >= 0 =>
                   Unwrap(alignment.start_locations)[i] =
                       Unwrap(alignment.end_locations)[i]
                           - RevEnd(Unwrap(alignment.end_locations)[i])

\* C9: with task Path and a solution found for non-empty sequences, the
\* result's alignment is present and is an edit script of the query against
\* target[start..=end] of the first pair of locations, with edit_distance
\* operations that are no Match; for align(q, q) in global mode it is |q|
\* Match operations.
C9_Path ==
    (pc = "done" /\ config.task = "Path" /\ NonEmpty /\ Found) =>
        /\ outcome = "ok"
        /\ IsSome(alignment.alignment)
        /\ IsSome(alignment.start_locations)
        /\ IsSome(alignment.end_locations)
        /\ RefScript(Unwrap(alignment.alignment), loc.query,
                     SubSeq(loc.target, Unwrap(alignment.start_locations)[1] + 1,
                            Unwrap(alignment.end_locations)[1] + 1),
                     Unwrap(alignment.edit_distance))
        /\ (config.mode = "NW" /\ query = target) =>
               Unwrap(alignment.alignment) = Rep("Match", Len(query))

\* C10: when the query or the target is empty, run skips the DP and returns
\* Ok with, in global mode, edit_distance = max(|query|, |target|) and
\* end_locations = [|target| - 1], and in prefix and infix mode
\* edit_distance = |query| and end_locations = [-1].
C10_EmptyFastPath ==
    (pc = "done" /\ (query = <<>> \/ target = <<>>)) =>
        /\ outcome = "ok"
        /\ sw = Idle
        /\ loc.sweeps = 0
        /\ IF config.mode = "NW"
           THEN /\ alignment.edit_distance =
                       Some(IF Len(query) >= Len(target) THEN Len(query) ELSE Len(target))
                /\ alignment.end_locations = Some(<<Len(target) - 1>>)
           ELSE /\ alignment.edit_distance = Some(Len(query))
                /\ alignment.end_locations = Some(<<-1>>)

\* the empty query against ABC in global mode
C10_Witness ==
    /\ pc = "done"
    /\ query = <<>>
    /\ target = <<65, 66, 67>>
    /\ config.mode = "NW"
    /\ alignment.edit_distance = Some(3)
    /\ alignment.end_locations = Some(<<2>>)

\* C15: with added_equalities the single pair (x, y) of distinct symbols, run
\* in global mode on the query "xy" and the target "yx" returns
\* edit_distance 0.
C15_AddedPairDistance ==
    (/\ pc = "done"
     /\ config.mode = "NW"
     /\ Len(query) = 2
     /\ query[1] # query[2]
     /\ target = <<query[2], query[1]>>
     /\ config.added_equalities = {<<query[1], query[2]>>}) =>
        (outcome = "ok" /\ alignment.edit_distance = Some(0))

\* ============================================================ call unit
\* calc_edit_dst_nw called on its own on an Alignment that may already hold
\* an edit_distance, with every combination of the optional arguments
\* position, align_data and target_stop_position.  The arguments are kept in
\* loc, the function's locals in sw.
CallInputs ==
    { [query |-> <<65>>, target |-> <<65>>],
      [query |-> <<65, 67>>, target |-> <<65>>],
      [query |-> Rep(65, WORD_SIZE), target |-> <<65, 65>>],
      [query |-> Rep(65, 2 * WORD_SIZE), target |-> Rep(65, 2 * WORD_SIZE)] }

CallKs == (0 .. MaxK) \cup {WORD_SIZE, 2 * WORD_SIZE}

CallLoc(tr, k, with_align_data, target_stop_position, position) ==
    [query |-> tr.query, target |-> tr.target,
     peq |-> build_peq_table(StrLen(tr.alphabet), tr.query,
                             EqualityDefinition_new(tr.alphabet, {})).table,
     max_num_blocks |-> CeilDiv(Len(tr.query), WORD_SIZE),
     w |-> (CeilDiv(Len(tr.query), WORD_SIZE) * WORD_SIZE) - Len(tr.query),
     k |-> k,
     align_data |-> IF with_align_data
                    THEN Some(AlignmentData_new(CeilDiv(Len(tr.query), WORD_SIZE),
                                                Len(tr.target)))
                    ELSE None,
     target_stop_position |-> target_stop_position,
     position |-> position]

NWCallInit ==
    /\ build \in Builds
    /\ \E inp \in CallInputs, k \in CallKs, with_align_data \in BOOLEAN,
          target_stop_position \in {None, Some(0), Some(1)},
          edit_distance \in {None, Some(5)}, position \in {None, Some(7)} :
          /\ query = inp.query
          /\ target = inp.target
          /\ config = [k |-> Some(k), mode |-> "NW", task |-> "Path", added_equalities |-> {}]
          /\ alignment = [Alignment_default EXCEPT !.edit_distance = edit_distance]
          /\ loc = CallLoc(transform_sequences(inp.query, inp.target), k, with_align_data,
                           target_stop_position, position)
    /\ pc = "call"
    /\ outcome = "none"
    /\ sw = Idle

\* The call's effect on its caller once the locals are st: align_data and
\* position are what the two out-parameters hold.
AfterCall(st, align_data, position) ==
    /\ sw' = st
    /\ loc' = [loc EXCEPT !.align_data = align_data, !.position = position]
    /\ alignment' = IF IsSome(st.score)
                    THEN [alignment EXCEPT !.edit_distance = st.score]
                    ELSE alignment
    /\ IF st.status = "ret" THEN Return("ok")
       ELSE IF st.status \in {"err", "panic"} THEN Return(st.status)
       ELSE pc' = "call_col" /\ outcome' = outcome

\* dst.rs 219-265
NWCall_Init ==
    /\ pc = "call"
    /\ AfterCall(NWInit(loc.k, loc.max_num_blocks, Len(loc.query), Len(loc.target),
                        IsSome(loc.align_data), loc.target_stop_position),
                 loc.align_data, loc.position)
    /\ UNCHANGED <<build, query, target, config>>

\* the column's end (dst.rs 467-481 after the last column): *pos = target.len() - 1
\* is written together with the score
AfterCallColumn(fin, align_data) ==
    AfterCall(fin, align_data,
              IF fin.status = "ret" /\ IsSome(fin.score)
              THEN Some(Len(loc.target) - 1)
              ELSE loc.position)

\* dst.rs 434-464 with the trace tr of the column whose locals are body
AfterCallTrace(body, tr) ==
    IF tr.status = "panic" THEN AfterCall(Stop(body, "panic"), Some(tr.ad), loc.position)
    ELSE IF tr.stopped
    THEN AfterCall(Stop(body, "ret"), Some(tr.ad),
                   IF IsSome(loc.position) THEN loc.target_stop_position ELSE None)
    ELSE AfterCallColumn(NWColumnEnd(NWNextColumn(body), loc.w, loc.max_num_blocks,
                                     Len(loc.target), IsSome(alignment.edit_distance),
                                     IsSome(loc.position)),
                         Some(tr.ad))

AfterCallBody(body) ==
    IF body.status = "run" /\ IsSome(loc.align_data)
    THEN AfterCallTrace(body, NWTrace(body, Unwrap(loc.align_data), loc.target_stop_position,
                                      loc.max_num_blocks, Len(loc.target),
                                      loc.target[sw.idx + 1]))
    ELSE AfterCallColumn(NWColumnEnd(NWNextColumn(body), loc.w, loc.max_num_blocks,
                                     Len(loc.target), IsSome(alignment.edit_distance),
                                     IsSome(loc.position)),
                         loc.align_data)

\* dst.rs 276-481: one column, and after the last one the closing part
NWCall_Column ==
    /\ pc = "call_col"
    /\ AfterCallBody(NWColumnBody(sw, loc.peq, loc.w, loc.max_num_blocks, Len(loc.query),
                                  loc.target, build))
    /\ UNCHANGED <<build, query, target, config>>

NWCallNext == NWCall_Init \/ NWCall_Column

NWCallSpec == NWCallInit /\ [][NWCallNext]_vars

\* C17: calc_edit_dst_nw returns an error whenever both align_data and
\* target_stop_position are supplied, and does so before any sweep: the call
\* ends in its first step with the Alignment's edit_distance, the position
\* and the trace as they were.
C17_InvalidConfiguration ==
    [][(pc = "call" /\ IsSome(loc.align_data) /\ IsSome(loc.target_stop_position)) =>
          /\ pc' = "done"
          /\ outcome' = "err"
          /\ sw'.idx = 0
          /\ alignment' = alignment
          /\ loc' = loc]_vars

\* the error returned on an Alignment holding a distance, with a position
C17_Witness ==
    /\ pc = "done"
    /\ outcome = "err"
    /\ IsSome(loc.align_data)
    /\ IsSome(loc.target_stop_position)
    /\ alignment.edit_distance = Some(5)
    /\ loc.position = Some(7)
    /\ loc.k = 2 * WORD_SIZE

\* =========================================================== table unit
\* transform_sequences, EqualityDefinition::new and build_peq_table called
\* one after the other on a query and a target, as the tests of align.rs,
\* equal.rs and peq.rs call them.  The state is kept in sw.
Chars == {65, 84, 233}
Strings == UNION {[1 .. n -> Chars] : n \in 0 .. MaxLen}
RECURSIVE Times(_, _)
Times(str, n) == IF n = 0 THEN <<>> ELSE str \o Times(str, n - 1)

TableScenarios ==
    { [query |-> <<65, 67, 84>>, target |-> <<67, 71, 84>>, added |-> {}],
      [query |-> <<65, 84, 71, 67>>, target |-> <<>>, added |-> {}],
      [query |-> <<65, 84, 71, 67>>, target |-> <<>>, added |-> {<<65, 84>>}],
      [query |-> Times(<<65, 71, 71, 65, 84, 65, 67, 65>>, 10),
       target |-> Times(<<65, 71, 71, 65, 84, 65, 67, 65>>, 10), added |-> {}],
      [query |-> <<84>> \o Rep(65, WORD_SIZE), target |-> <<84>>, added |-> {<<65, 84>>}],
      [query |-> <<8364>>, target |-> <<65>>, added |-> {}] }

Addeds == {{}, {<<65, 84>>}, {<<65, 90>>}, {<<84, 233>>, <<90, 90>>}}

TableInputs ==
    {[query |-> q, target |-> t, added |-> a] : q \in Strings, t \in Strings, a \in Addeds}
        \cup TableScenarios

TableInit ==
    /\ build \in Builds
    /\ \E inp \in TableInputs :
          /\ query = inp.query
          /\ target = inp.target
          /\ config = [k |-> None, mode |-> "NW", task |-> "Distance",
                       added_equalities |-> inp.added]
    /\ pc = "transform"
    /\ outcome = "none"
    /\ alignment = Alignment_default
    /\ loc = [calls |-> 0]
    /\ sw = [status |-> "table"]

\* let (alphabet, transformed_query, transformed_target) = transform_sequences(query, target);
\* alignment.alphabet_length = alphabet.len()
Table_Transform ==
    /\ pc = "transform"
    /\ LET tr == transform_sequences(query, target)
       IN  IF tr.status # "ok"
           THEN /\ sw' = [status |-> tr.status]
                /\ Return(tr.status)
                /\ UNCHANGED alignment
           ELSE /\ sw' = [status |-> "table", alphabet |-> tr.alphabet,
                          query |-> tr.query, target |-> tr.target]
                /\ alignment' = [alignment EXCEPT !.alphabet_length = StrLen(tr.alphabet)]
                /\ pc' = "equality"
                /\ outcome' = outcome
    /\ loc' = [calls |-> 1]
    /\ UNCHANGED <<build, query, target, config>>

\* let equality_def = EqualityDefinition::new(&alphabet, Some(&added_equalities))
Table_Equality ==
    /\ pc = "equality"
    /\ sw' = [status |-> "table", alphabet |-> sw.alphabet, query |-> sw.query,
              target |-> sw.target,
              equality_def |-> EqualityDefinition_new(sw.alphabet, config.added_equalities)]
    /\ pc' = "peq"
    /\ loc' = [calls |-> 2]
    /\ UNCHANGED <<build, query, target, config, outcome, alignment>>

\* let peq = build_peq_table(alphabet.len(), &transformed_query, &equality_def)
TablePeqBuilt(r) ==
    /\ sw' = [status |-> r.status, alphabet |-> sw.alphabet, query |-> sw.query,
              target |-> sw.target, equality_def |-> sw.equality_def, peq |-> r.table]
    /\ Return(r.status)

Table_Peq ==
    /\ pc = "peq"
    /\ TablePeqBuilt(build_peq_table(alignment.alphabet_length, sw.query, sw.equality_def))
    /\ loc' = [calls |-> 3]
    /\ UNCHANGED <<build, query, target, config, alignment>>

TableNext == Table_Transform \/ Table_Equality \/ Table_Peq

TableSpec == TableInit /\ [][TableNext]_vars

\* the distinct symbols of a string in order of first appearance
InStr(str, ch) == \E i \in 1 .. Len(str) : str[i] = ch
RefAlphabet(str) ==
    FoldRange(LAMBDA acc, i : IF InStr(acc, str[i]) THEN acc ELSE Append(acc, str[i]),
              <<>>, 1, Len(str))
\* the position (0-based) of a symbol in an alphabet that holds it
RefPos(alphabet, ch) == (CHOOSE i \in 1 .. Len(alphabet) : alphabet[i] = ch) - 1
RefIndices(alphabet, str) == [i \in 1 .. Len(str) |-> RefPos(alphabet, str[i])]

\* C12: transform_sequences(query, target) returns as alphabet the distinct
\* symbols of query followed by target in order of first appearance, each
\* sequence as the list of its symbols' positions in that alphabet, and the
\* reported alphabet length is the number of distinct symbols.
C12_Transform ==
    (loc.calls >= 1) =>
        /\ sw.status # "panic"
        /\ sw.alphabet = RefAlphabet(query \o target)
        /\ sw.query = RefIndices(sw.alphabet, query)
        /\ sw.target = RefIndices(sw.alphabet, target)
        /\ alignment.alphabet_length = Len(RefAlphabet(query \o target))

\* the relation the documentation gives to the symbols x and y
RefRel(x, y) == x = y \/ <<x, y>> \in config.added_equalities

\* bit i of the word of (symbol s, block b), the query position being r
RefPeqBit(alphabet, s, r) == r >= Len(query) \/ RefRel(query[r + 1], alphabet[s + 1])

RefPeqRows(alphabet, peq, max_num_blocks) ==
    /\ Len(peq) = (Len(alphabet) + 1) * max_num_blocks
    /\ \A s \in 0 .. (Len(alphabet) - 1), b \in 0 .. (max_num_blocks - 1) :
           peq[(s * max_num_blocks) + b + 1] =
               {i \in BitIdx : RefPeqBit(alphabet, s, (b * WORD_SIZE) + i)}
    /\ \A b \in 0 .. (max_num_blocks - 1) :
           peq[(Len(alphabet) * max_num_blocks) + b + 1] = WORD_MAX

\* C13: build_peq_table returns a table in which, for every real symbol
\* s < A, block b < maxBlocks and row i < W, bit i of the word at index
\* s * maxBlocks + b is set iff the query position r = b * W + i is beyond the
\* query's end or the equality relation holds for (query[r], s), and every
\* word of the wildcard row s = A is all ones.
C13_PeqTable ==
    (loc.calls = 3) =>
        /\ outcome = "ok"
        /\ RefPeqRows(RefAlphabet(query \o target), sw.peq, CeilDiv(Len(query), WORD_SIZE))

\* the symbols of an alphabet
SymbolsOf(alphabet) == {alphabet[i] : i \in 1 .. Len(alphabet)}

\* the added pairs whose two symbols are both in the alphabet
PresentPairs(alphabet) ==
    {e \in config.added_equalities : e[1] \in SymbolsOf(alphabet) /\ e[2] \in SymbolsOf(alphabet)}

\* C14: in the relation built by EqualityDefinition::new, for alphabet
\* symbols x and y, are_equal(x, y) is true iff x = y or the pair (x, y) was
\* added; a pair is written in one direction only, and added pairs naming a
\* symbol absent from the alphabet are dropped and change nothing.
C14_EqualityRelation ==
    (loc.calls >= 2) =>
        /\ \A x \in SymbolsOf(sw.alphabet), y \in SymbolsOf(sw.alphabet) :
               are_equal(sw.equality_def, x, y) = [status |-> "ok", v |-> RefRel(x, y)]
        /\ sw.equality_def.matrix =
               EqualityDefinition_new(sw.alphabet, PresentPairs(sw.alphabet)).matrix

\* (T, e-acute) added beside a pair of absent symbols: equal one way only
C14_Witness ==
    /\ loc.calls >= 2
    /\ config.added_equalities = {<<84, 233>>, <<90, 90>>}
    /\ are_equal(sw.equality_def, 84, 233) = [status |-> "ok", v |-> TRUE]
    /\ are_equal(sw.equality_def, 233, 84) = [status |-> "ok", v |-> FALSE]
    /\ are_equal(sw.equality_def, 90, 90).status = "err"

\* C16: the equality matrix built by EqualityDefinition::new for an
\* alphabet of A symbols has exactly A * A entries, of which exactly A are
\* true when no equalities are added.
C16_MatrixSize ==
    (loc.calls >= 2) =>
        /\ sw.equality_def.matrix_len = Len(sw.alphabet) * Len(sw.alphabet)
        /\ config.added_equalities = {} =>
               Cardinality(sw.equality_def.matrix) = Len(sw.alphabet)

\* =========================================================== block unit
\* Block::calculate_hout_delta and Block::get_cell_values called on their
\* own: a block with disjoint p and m, any word eq and any hin, the update
\* applied up to MaxUpdates times in a row.  The state is kept in sw.
MaxUpdates == 2

Evens == {i \in BitIdx : i % 2 = 0}
LowHalf == {i \in BitIdx : i < WORD_SIZE \div 2}
Words == {WORD_0, WORD_MAX, WORD_1, HIGH_BIT_MASK, Evens, LowHalf}
EqWords == {WORD_0, WORD_MAX, WORD_1, Evens}
Hins == {-1, 0, 1}

BlockInit ==
    /\ build \in Builds
    /\ query = <<>>
    /\ target = <<>>
    /\ config = [k |-> None, mode |-> "NW", task |-> "Distance", added_equalities |-> {}]
    /\ pc = "block"
    /\ outcome = "none"
    /\ alignment = Alignment_default
    /\ loc = [updates |-> 0]
    /\ \E p \in Words, m \in Words :
          /\ WAnd(p, m) = WORD_0
          /\ sw = [status |-> "block", blk |-> Block(p, m, WORD_SIZE),
                   old |-> Block(p, m, WORD_SIZE), eq |-> WORD_0, hin |-> 0,
                   ph |-> WORD_0, mh |-> WORD_0, hout |-> 0, scores |-> <<>>]

\* block.calculate_hout_delta(eq, hin): r is what the call computes
BlockUpdated(eq, hin, r) ==
    IF r.overflow /\ build = "debug"
    THEN /\ sw' = [sw EXCEPT !.status = "panic", !.old = sw.blk, !.eq = eq, !.hin = hin]
         /\ Return("panic")
    ELSE /\ sw' = [sw EXCEPT !.status = "updated", !.old = sw.blk, !.blk = r.blk,
                             !.eq = eq, !.hin = hin, !.ph = r.ph, !.mh = r.mh,
                             !.hout = r.hout]
         /\ UNCHANGED <<pc, outcome>>

Block_Update ==
    /\ pc = "block"
    /\ loc.updates < MaxUpdates
    /\ \E eq \in EqWords, hin \in Hins :
          BlockUpdated(eq, hin, calculate_hout_delta(sw.blk, eq, hin))
    /\ loc' = [loc EXCEPT !.updates = loc.updates + 1]
    /\ UNCHANGED <<build, query, target, config, alignment>>

\* block.get_cell_values()
Block_Cells ==
    /\ pc = "block"
    /\ sw' = [sw EXCEPT !.scores = get_cell_values(sw.blk)]
    /\ pc' = "cells"
    /\ UNCHANGED <<build, query, target, config, outcome, alignment, loc>>

BlockNext == Block_Update \/ Block_Cells

BlockSpec == BlockInit /\ [][BlockNext]_vars

\* The cell-by-cell recurrence D[i][j] = min(D[i-1][j-1] + (1 - eq),
\* D[i-1][j] + 1, D[i][j-1] + 1) in deltas: vin = D[i][j-1] - D[i-1][j-1],
\* hin = D[i-1][j] - D[i-1][j-1]; vout and hout are the cell's deltas in
\* column j and at row i.
RefCell(vin, hin, eq) ==
    [vout |-> Min3(1 - eq, hin + 1, vin + 1) - hin,
     hout |-> Min3(1 - eq, hin + 1, vin + 1) - vin]

Vin(blk, i) == IF i \in blk.p THEN 1 ELSE IF i \in blk.m THEN -1 ELSE 0

RefCellStep(blk, eq, acc, c, i) ==
    [h |-> c.hout,
     p |-> IF c.vout = 1 THEN acc.p \cup {i} ELSE acc.p,
     m |-> IF c.vout = -1 THEN acc.m \cup {i} ELSE acc.m,
     ok |-> acc.ok /\ c.vout \in Hins /\ c.hout \in Hins]

\* the W cells of the block from the top (bit 0) to the bottom (bit W - 1)
RefBlock(blk, eq, hin) ==
    FoldRange(LAMBDA acc, i :
                  RefCellStep(blk, eq, acc,
                              RefCell(Vin(blk, i), acc.h, IF i \in eq THEN 1 ELSE 0), i),
              [h |-> hin, p |-> {}, m |-> {}, ok |-> TRUE], 0, WORD_SIZE - 1)

\* C11: P & M == 0 holds for the block before and after every update by
\* calculate_hout_delta, for every eq and every hin in {-1, 0, 1}, starting
\* from any block with P & M == 0 (the initial block P all ones, M = 0 among
\* them) and over consecutive updates.
C11_DisjointVectors ==
    /\ WAnd(sw.blk.p, sw.blk.m) = WORD_0
    /\ WAnd(sw.old.p, sw.old.m) = WORD_0

\* an update of the initial block by a non-zero eq has completed twice over
C11_Witness ==
    /\ sw.status = "updated"
    /\ loc.updates = 2
    /\ sw.eq # WORD_0
    /\ sw.blk # sw.old
    /\ sw.blk.m # WORD_0

\* C18: the block update agrees with the cell-by-cell recurrence.  For a
\* block (P, M) holding the vertical deltas of W cells of one column and an
\* hin in {-1, 0, 1}, calculate_hout_delta(eq, hin) returns, the new (P, M)
\* hold the vertical deltas of the same cells in the next column, and hout
\* is in {-1, 0, 1} and is the horizontal delta of the bottom cell.
C18_BlockRecurrence ==
    sw.status # "block" =>
        /\ sw.status = "updated"
        /\ sw.blk.p = RefBlock(sw.old, sw.eq, sw.hin).p
        /\ sw.blk.m = RefBlock(sw.old, sw.eq, sw.hin).m
        /\ sw.hout = RefBlock(sw.old, sw.eq, sw.hin).h
        /\ sw.hout \in Hins

\* C19 as stated: after the shift bit 0 of Mh is set iff hin < 0 and bit 0
\* of Ph is set iff hin >= 0.
C19_ShiftedBits ==
    sw.status = "updated" =>
        /\ (0 \in sw.mh) <=> (sw.hin < 0)
        /\ (0 \in sw.ph) <=> (sw.hin >= 0)

\* C19: after Ph and Mh are shifted left by one, bit 0 of Mh is set iff
\* hin < 0 and bit 0 of Ph is set iff hin > 0; neither is set when hin = 0.
C19_ShiftedBitsSigned ==
    sw.status = "updated" =>
        /\ (0 \in sw.mh) <=> (sw.hin < 0)
        /\ (0 \in sw.ph) <=> (sw.hin > 0)

\* an update with hin = 0 that left bit 0 of Ph and of Mh clear and whose
\* result is the recurrence's
C19_Witness ==
    /\ sw.status = "updated"
    /\ sw.hin = 0
    /\ 0 \notin sw.ph
    /\ 0 \notin sw.mh
    /\ sw.blk.p = RefBlock(sw.old, sw.eq, sw.hin).p
    /\ sw.blk.m = RefBlock(sw.old, sw.eq, sw.hin).m

\* score - popcount(P >> (i + 1)) + popcount(M >> (i + 1)) for the row
\* i = W - 1 - e that entry e stands for
RefCellValue(blk, e) ==
    blk.score - Cardinality({b \in blk.p : b >= WORD_SIZE - e})
              + Cardinality({b \in blk.m : b >= WORD_SIZE - e})

\* C20: get_cell_values returns W values from the bottom cell upward; entry
\* 0 is the score and every further entry subtracts the P bit and adds the
\* M bit of the row just passed, a different bit at each step.
C20_CellValues ==
    pc = "cells" =>
        /\ Len(sw.scores) = WORD_SIZE
        /\ \A e \in 0 .. WORD_SIZE - 1 : sw.scores[e + 1] = RefCellValue(sw.blk, e)

\* ============================================================ band claims
\* min(ceil((k + 1) / W), maxBlocks) - 1
RefInitialLast(k) == Min(CeilDiv(k + 1, WORD_SIZE), loc.max_num_blocks) - 1

\* the step that sets up a sweep's band
InitialBandStep ==
    pc \in {"semi_init", "nw_init"} =>
        \/ pc = "nw_init" /\ sw'.status = "ret"
        \/ /\ sw'.status = "run"
           /\ sw'.first = 0
           /\ sw'.last \in {RefInitialLast(loc.k), RefInitialLast(sw'.k)}
           /\ sw'.last \in 0 .. (loc.max_num_blocks - 1)

\* C21: at the start of every sweep with threshold k (the k passed to the
\* sweep, or the k the sweep caps it to) firstBlock = 0 and
\* lastBlock = min(ceil((k + 1) / W), maxBlocks) - 1, which lies in
\* 0 .. maxBlocks - 1; a global sweep may return before that when
\* k < | |target| - |query| |.
C21_InitialBand == [][InitialBandStep]_vars

\* C22: in the step for a target column of either sweep the update of block
\* b uses the word at index s * maxBlocks + b of the PEQ table, s being the
\* column's symbol: the index does not depend on the column's number and lies
\* inside the table, for every block of the band the column starts with.
C22_PeqIndex ==
    pc \in {"semi_col", "nw_col"} =>
        \A b \in sw.first .. sw.last :
            /\ ColIdx(sw.idx, loc.target[sw.idx + 1], loc.max_num_blocks) + b
                   = (loc.target[sw.idx + 1] * loc.max_num_blocks) + b
            /\ ColIdx(sw.idx, loc.target[sw.idx + 1], loc.max_num_blocks) + b < Len(loc.peq)

\* 0 <= firstBlock <= lastBlock <= maxBlocks - 1 at a column of a sweep, the
\* band's blocks being allocated
BandInRange ==
    pc \in {"semi_col", "nw_col"} =>
        /\ 0 <= sw.first
        /\ sw.first <= sw.last
        /\ sw.last <= loc.max_num_blocks - 1
        /\ sw.last < Len(sw.blocks)

\* A column that starts with its band in range does not panic.  In column 0
\* the PEQ indices are in range and in the release build the arithmetic wraps,
\* so that the only panics left are those of a block index out of the stack.
BlockIndexStep ==
    (/\ pc \in {"semi_col", "nw_col"}
     /\ build = "release"
     /\ sw.idx = 0
     /\ sw.first = 0
     /\ sw.last <= loc.max_num_blocks - 1
     /\ sw.last < Len(sw.blocks)) => (sw'.status # "panic")

\* C23: at every column of a sweep whose band has not collapsed
\* 0 <= firstBlock <= lastBlock <= maxBlocks - 1, and every block index read
\* or written during the column lies inside the block stack, none of them
\* computed below zero.
C23_BlockIndices == []BandInRange /\ [][BlockIndexStep]_vars

\* ========================================================== sweep claims
\* the bottom score of the column a semi-global step has just computed
ColScore == sw'.blocks[sw'.last + 1].score

\* the position of the column the step computes: its number, less the
\* padding w where the spec says so
ColPositions == {sw.idx, sw.idx - loc.w}

\* the record rule on a step of the semi-global sweep that ends with
\* lastBlock = maxBlocks - 1 and a bottom score <= k
RecordStep ==
    (/\ pc = "semi_col"
     /\ sw'.status = "run"
     /\ sw'.last = loc.max_num_blocks - 1
     /\ ColScore <= sw.k) =>
        IF IsNone(sw.best) \/ ColScore < Unwrap(sw.best)
        THEN /\ sw'.best = Some(ColScore)
             /\ sw'.k = ColScore
             /\ \E pos \in ColPositions : sw'.positions = <<pos>>
        ELSE /\ sw'.best = sw.best
             /\ sw'.k = sw.k
             /\ IF ColScore = Unwrap(sw.best)
                THEN \E pos \in ColPositions : sw'.positions = Append(sw.positions, pos)
                ELSE sw'.positions = sw.positions

\* C24: in a semi-global sweep, whenever lastBlock = maxBlocks - 1 and the
\* column's bottom score s is <= k: with no best yet or s strictly below the
\* best the position list is cleared and best and k become s; the column's
\* position is appended iff s <= the previous best or none existed.
C24_RecordBest == [][RecordStep]_vars

\* a step inside a sweep: a column, or the closing part of the semi-global one
ThresholdStep ==
    pc \in {"semi_col", "semi_fin", "nw_col"} => sw'.k <= sw.k

\* C25: within one sweep, global or semi-global, the threshold k never
\* increases from one column to the next.
C25_ThresholdShrinks == [][ThresholdStep]_vars

\* a semi-global sweep that has returned with a best score below the k it
\* started with, k having followed the best score down
C25_Witness ==
    /\ pc = "loop_end"
    /\ config.mode \in {"SHW", "HW"}
    /\ sw.status = "ret"
    /\ sw.idx = Len(loc.target)
    /\ IsSome(sw.best)
    /\ sw.k = Unwrap(sw.best)
    /\ sw.k < Min(loc.k, Len(loc.query))

\* ============================================================ retry claim
RECURSIVE Pow2(_)
Pow2(n) == IF n = 0 THEN 1 ELSE 2 * Pow2(n - 1)

\* the k of the sweep in progress: the caller's, in the only sweep there is,
\* or W doubled once per sweep before this one
SweepOfK ==
    pc \in {"semi_init", "semi_col", "semi_fin", "nw_init", "nw_col"} =>
        IF IsSome(config.k)
        THEN loc.sweeps = 1 /\ loc.k = Unwrap(config.k)
        ELSE loc.k = WORD_SIZE * Pow2(loc.sweeps - 1)

\* the end of an iteration of the loop: another sweep or none
LoopEndStep ==
    pc = "loop_end" =>
        IF pc' \in {"semi_init", "nw_init"}
        THEN /\ IsNone(config.k)
             /\ IsNone(alignment.edit_distance)
             /\ loc'.k = 2 * loc.k
             /\ loc'.sweeps = loc.sweeps + 1
        ELSE /\ pc' = "locations"
             /\ IsSome(config.k) \/ IsSome(alignment.edit_distance)
             /\ loc'.sweeps = loc.sweeps

\* C26: in Alignment::run a sweep that ends without a solution is followed
\* by another sweep only when k was unset, and that sweep uses exactly twice
\* the k of the previous one (W, 2W, 4W, ...); with a caller-supplied k
\* exactly one sweep is run, and once a sweep records a solution no further
\* sweep is run.
C26_RetryDoubles == []SweepOfK /\ [][LoopEndStep]_vars

\* the third sweep of a run without k, and the sweep before it left no distance
C26_Witness ==
    /\ pc \in {"semi_col", "nw_col"}
    /\ IsNone(config.k)
    /\ loc.sweeps = 3
    /\ loc.k = 4 * WORD_SIZE
    /\ IsNone(alignment.edit_distance)

\* ============================================================= sum claim
\* C27: in the block update the sum (Eq & P) + P is taken modulo 2^W: for
\* every P and Eq, P all ones with a non-zero Eq among them, the carry out of
\* the top bit is discarded and the update completes with a result; no
\* update ends in a panic.
C27_WrappingSum ==
    /\ sw.status \in {"block", "updated"}
    /\ outcome # "panic"

====
